---- MODULE Spec2Model ----
(***************************************************************************)
(* Model of day23.py (Advent of Code 2021, day 23): the board state, the   *)
(* move generator get_possible_moves and the memoized recursive search     *)
(* steps_to_target.                                                        *)
(*                                                                         *)
(* A board state is the tuple of the source: state[0] is the hallway       *)
(* (columns 0..10) and state[1..4] are the rooms (slot 0 is the top, slot  *)
(* 1 the bottom).  Python's None is the string "None".                     *)
(***************************************************************************)
EXTENDS Integers, Sequences, FiniteSets, TLC

VARIABLES initial_state, state, energy, moved, walked,
          pc, stack, cache, returned, expansions, expanded

vars == <<initial_state, state, energy, moved, walked,
          pc, stack, cache, returned, expansions, expanded>>

walk_vars == <<initial_state, state, energy, moved, walked>>
search_vars == <<pc, stack, cache, returned, expansions, expanded>>

(* ------------------------------ bounds --------------------------------- *)
\* moves taken from the initial layout before the search is called
MaxWalk == 2
\* top-level calls of steps_to_target on the same state
MaxCalls == 2
\* longest move sequence looked at by the reference totals PathTotals
PathBound == 6
\* longest cycle of moves looked for
CycleBound == 2

(* --------------------------- program constants -------------------------- *)
None == "None"
Letters == {"A", "B", "C", "D"}
HallwayLen == 11
RoomDepth == 2
Doorways == {2, 4, 6, 8}

abs(x) == IF x < 0 THEN -x ELSE x

hallway == [j \in 0..(HallwayLen - 1) |-> None]

MkState(r1, r2, r3, r4) ==
  [i \in 0..4 |-> CASE i = 0 -> hallway
                    [] i = 1 -> [k \in 0..(RoomDepth - 1) |-> r1[k + 1]]
                    [] i = 2 -> [k \in 0..(RoomDepth - 1) |-> r2[k + 1]]
                    [] i = 3 -> [k \in 0..(RoomDepth - 1) |-> r3[k + 1]]
                    [] i = 4 -> [k \in 0..(RoomDepth - 1) |-> r4[k + 1]]]

target_state == MkState(<<"A", "A">>, <<"B", "B">>, <<"C", "C">>, <<"D", "D">>)
target_rooms == [A |-> 1, B |-> 2, C |-> 3, D |-> 4]
room_to_hall == <<2, 4, 6, 8>>
energy_costs == [A |-> 1, B |-> 10, C |-> 100, D |-> 1000]

(* ---------------------- get_possible_moves: rooms ----------------------- *)
\* index of the first non-empty slot of room i, -1 when the room is empty
top_loc(st, i) ==
  IF st[i][0] # None THEN 0
  ELSE IF st[i][1] # None THEN 1
  ELSE -1

\* variant: the check for settled units is left out
dont_move_left_out(st, i) == FALSE

\* variant: only the room of the top unit is looked at, not the units below
dont_move_room_only(st, i) == target_rooms[st[i][top_loc(st, i)]] = i

\* "this letter is in the right room, and everything below it is as well"
dont_move(st, i) ==
  LET t == top_loc(st, i)
      letter == st[i][t]
  IN  /\ target_rooms[letter] = i
      /\ \A k \in t..(RoomDepth - 1) : st[i][k] = letter

\* variant: the first loop stops at an occupied column instead of clearing
RECURSIVE left_scan_stops(_, _, _, _)
left_scan_stops(hall, j, door, locs) ==
  IF j >= door THEN locs
  ELSE IF hall[j] # None THEN locs
  ELSE left_scan_stops(hall, j + 1, door,
                       IF j \notin Doorways THEN Append(locs, j) ELSE locs)

\* first loop: columns left of the doorway, cleared at every occupied column
RECURSIVE left_scan(_, _, _, _)
left_scan(hall, j, door, locs) ==
  IF j >= door THEN locs
  ELSE LET appended == IF j \notin Doorways THEN Append(locs, j) ELSE locs
           cleared == IF hall[j] # None THEN <<>> ELSE appended
       IN  left_scan(hall, j + 1, door, cleared)

\* variant: the second loop without "if j not in [2, 4, 6, 8]"
RECURSIVE right_scan_all_columns(_, _, _)
right_scan_all_columns(hall, j, locs) ==
  IF j >= HallwayLen THEN locs
  ELSE IF hall[j] # None THEN locs
  ELSE right_scan_all_columns(hall, j + 1, Append(locs, j))

\* second loop: from the doorway rightwards, break at the first occupied column
RECURSIVE right_scan(_, _, _)
right_scan(hall, j, locs) ==
  IF j >= HallwayLen THEN locs
  ELSE IF hall[j] # None THEN locs
  ELSE right_scan(hall, j + 1,
                  IF j \notin Doorways THEN Append(locs, j) ELSE locs)

possible_locs(st, i) ==
  right_scan(st[0], room_to_hall[i], left_scan(st[0], 0, room_to_hall[i], <<>>))

\* variant: the distance along the hallway without abs()
room_energy_signed(steps, loc, i, letter) ==
  (steps + 1 + (loc - room_to_hall[i])) * energy_costs[letter]

\* variant: the step out of the room is not counted
room_energy_no_exit(steps, loc, i, letter) ==
  (steps + abs(loc - room_to_hall[i])) * energy_costs[letter]

room_energy(steps, loc, i, letter) ==
  (steps + 1 + abs(loc - room_to_hall[i])) * energy_costs[letter]

\* the moves yielded for room i, in the order of possible_locs
room_moves(st, i) ==
  IF top_loc(st, i) = -1 THEN <<>>
  ELSE IF dont_move(st, i) THEN <<>>
  ELSE LET t == top_loc(st, i)
           letter == st[i][t]
           locs == possible_locs(st, i)
       IN  [n \in 1..Len(locs) |->
              <<[st EXCEPT ![i][t] = None, ![0][locs[n]] = letter],
                room_energy(t, locs[n], i, letter)>>]

(* --------------------- get_possible_moves: hallway ---------------------- *)
\* set(state[target_room]).discard(None): set.discard works in place and
\* returns None, so room_letters is None whatever the room holds
room_letters(st, target_room) == None

\* "if room_letters and {letter} != room_letters: continue"; None is falsy
room_has_others(st, letter, target_room) ==
  /\ room_letters(st, target_room) # None
  /\ {letter} # room_letters(st, target_room)

\* variant: the slice to the right of the unit is taken on both sides
hall_locs_left_only(i, target_hallway) == (i + 1)..target_hallway

\* the hallway slice looked at for a unit at column i
hall_locs(i, target_hallway) ==
  IF i < target_hallway THEN (i + 1)..target_hallway
  ELSE target_hallway..(i - 1)

\* variant: the slots are scanned from the top (no reversed())
room_loc_top_first(room_list) ==
  IF room_list[0] = None THEN 0
  ELSE IF room_list[1] = None THEN 1
  ELSE 1

\* for room_loc, other_letter in reversed(list(enumerate(room_list))): the
\* loop variable keeps its last value (0) when no slot is empty
room_loc_of(room_list) ==
  IF room_list[1] = None THEN 1
  ELSE IF room_list[0] = None THEN 0
  ELSE 0

hall_steps(i, target_hallway, room_loc) == abs(i - target_hallway) + room_loc + 1

\* energy = steps * energy_costs[letter]; yield ..., steps * energy
hall_energy(steps, letter) == steps * (steps * energy_costs[letter])

\* the move yielded for hallway column i (none, or one)
hall_moves(st, i) ==
  LET letter == st[0][i] IN
  IF letter = None THEN <<>>
  ELSE LET target_room == target_rooms[letter]
           target_hallway == room_to_hall[target_room]
       IN  IF room_has_others(st, letter, target_room) THEN <<>>
           ELSE IF \E loc \in hall_locs(i, target_hallway) : st[0][loc] # None
           THEN <<>>
           ELSE LET room_loc == room_loc_of(st[target_room])
                    steps == hall_steps(i, target_hallway, room_loc)
                IN  << <<[st EXCEPT ![0][i] = None,
                                     ![target_room][room_loc] = letter],
                         hall_energy(steps, letter)>> >>

RECURSIVE all_room_moves(_, _)
all_room_moves(st, i) ==
  IF i > 4 THEN <<>> ELSE room_moves(st, i) \o all_room_moves(st, i + 1)

RECURSIVE all_hall_moves(_, _)
all_hall_moves(st, i) ==
  IF i >= HallwayLen THEN <<>> ELSE hall_moves(st, i) \o all_hall_moves(st, i + 1)

\* the sequence of (new_state, energy) pairs in the order they are yielded
get_possible_moves(st) == all_room_moves(st, 1) \o all_hall_moves(st, 0)

(* --------------------------- initial layouts ---------------------------- *)
ExampleState == MkState(<<"B", "A">>, <<"C", "D">>, <<"B", "C">>, <<"D", "A">>)
HalfState == MkState(<<"B", "A">>, <<"A", "B">>, <<"C", "C">>, <<"D", "D">>)
SwapState == MkState(<<"A", "B">>, <<"B", "A">>, <<"C", "C">>, <<"D", "D">>)
TailState == MkState(<<"A", "A">>, <<"B", "B">>, <<"D", "C">>, <<"C", "D">>)

InitialStates == {ExampleState, HalfState, SwapState, TailState, target_state}
SortedHalfStates == {HalfState, SwapState, TailState, target_state}

InitSearchVars ==
  /\ pc = "walk"
  /\ stack = <<>>
  /\ cache = <<>>
  /\ returned = <<>>
  /\ expansions = <<>>
  /\ expanded = 0

Init ==
  /\ initial_state \in InitialStates
  /\ state = initial_state
  /\ energy = 0
  /\ moved = "none"
  /\ walked = 0
  /\ InitSearchVars

(* ------------------------------ the walk -------------------------------- *)
TakeMove(moves, kind) ==
  \E n \in DOMAIN moves :
    /\ state' = moves[n][1]
    /\ energy' = moves[n][2]
    /\ moved' = kind
    /\ UNCHANGED initial_state

RoomToHallway ==
  /\ pc = "walk"
  /\ TakeMove(all_room_moves(state, 1), "room_to_hall")
  /\ UNCHANGED walked
  /\ UNCHANGED search_vars

HallwayToRoom ==
  /\ pc = "walk"
  /\ TakeMove(all_hall_moves(state, 0), "hall_to_room")
  /\ UNCHANGED walked
  /\ UNCHANGED search_vars

Next == RoomToHallway \/ HallwayToRoom

Spec == Init /\ [][Next]_vars

(* --------------------------- steps_to_target ---------------------------- *)
\* sys.setrecursionlimit(30000)
RecursionLimit == 30000

Min(S) == CHOOSE m \in S : \A x \in S : m <= x
Range(seq) == {seq[n] : n \in DOMAIN seq}

Top == stack[Len(stack)]

\* An activation is [state, moves, idx, possible_costs]: moves is what the
\* generator get_possible_moves(state) yields and idx the next pair to take.
\* the generator of the top activation has nothing left to yield
Exhausted == Top.idx > Len(Top.moves)

\* a call of steps_to_target is about to be made: by the caller (empty stack)
\* or by the loop of the top activation
CallPending ==
  /\ pc = "search"
  /\ IF stack = <<>> THEN TRUE ELSE ~Exhausted

\* the argument of that call
callee ==
  IF stack = <<>> THEN state
  ELSE Top.moves[Top.idx][1]

InProgress(s) == \E n \in DOMAIN stack : stack[n].state = s

Outcome(o, v, s, e) == [outcome |-> o, value |-> v, at |-> s, expanded |-> e]

\* the call returns v: to the caller, or into possible_costs of the frame fr
\* that made it (possible_costs.append(energy + steps_to_target(new_state)))
Deliver(v, frames) ==
  IF frames = <<>>
  THEN /\ stack' = <<>>
       /\ returned' = Append(returned, Outcome("value", v, state, expanded))
       /\ pc' = "done"
  ELSE LET fr == frames[Len(frames)]
           edge == fr.moves[fr.idx][2]
       IN  /\ stack' = [frames EXCEPT ![Len(frames)] =
                          [fr EXCEPT !.idx = fr.idx + 1,
                                     !.possible_costs = Append(fr.possible_costs, edge + v)]]
           /\ UNCHANGED <<returned, pc>>

\* the caller invokes steps_to_target(state)
TopCall ==
  /\ pc \in {"walk", "done"}
  /\ Len(returned) < MaxCalls
  /\ pc' = "search"
  /\ stack' = <<>>
  /\ expansions' = <<>>
  /\ UNCHANGED <<cache, returned, expanded>>
  /\ UNCHANGED walk_vars

\* @cache: the argument has a stored result, the body does not run
CacheHit ==
  /\ CallPending
  /\ callee \in DOMAIN cache
  /\ Deliver(cache[callee], stack)
  /\ UNCHANGED <<cache, expansions, expanded>>
  /\ UNCHANGED walk_vars

\* variant: the base case charges one step of the cheapest unit
base_value_step == energy_costs["A"]

base_value == 0

\* if state == target_state: return 0
BaseCase ==
  /\ CallPending
  /\ callee \notin DOMAIN cache
  /\ callee = target_state
  /\ cache' = (callee :> base_value) @@ cache
  /\ Deliver(base_value, stack)
  /\ UNCHANGED <<expansions, expanded>>
  /\ UNCHANGED walk_vars

Count(s) == IF s \in DOMAIN expansions THEN expansions[s] ELSE 0

\* the body runs for a state that is not the target: a new activation
\* starts enumerating get_possible_moves(state)
Expand ==
  /\ CallPending
  /\ callee \notin DOMAIN cache
  /\ callee # target_state
  /\ ~InProgress(callee)
  /\ Len(stack) + 1 < RecursionLimit
  /\ stack' = Append(stack, [state |-> callee, moves |-> get_possible_moves(callee),
                             idx |-> 1, possible_costs |-> <<>>])
  /\ expansions' = (callee :> Count(callee) + 1) @@ expansions
  /\ expanded' = expanded + 1
  /\ UNCHANGED <<pc, cache, returned>>
  /\ UNCHANGED walk_vars

\* the body runs again for a state whose activation has not returned: it
\* has no cache entry, the new activation repeats the enumeration of the
\* first one and reaches the same call, so the recursion does not bottom out
\* and ends at the recursion limit; the error unwinds every activation
Reenter ==
  /\ CallPending
  /\ callee \notin DOMAIN cache
  /\ callee # target_state
  /\ (InProgress(callee) \/ Len(stack) + 1 >= RecursionLimit)
  /\ expansions' = (callee :> Count(callee) + 1) @@ expansions
  /\ expanded' = expanded + 1
  /\ stack' = <<>>
  /\ returned' = Append(returned, Outcome("RecursionError", None, callee, expanded + 1))
  /\ pc' = "done"
  /\ UNCHANGED cache
  /\ UNCHANGED walk_vars

\* return min(possible_costs), stored by @cache
Return ==
  /\ pc = "search"
  /\ stack # <<>>
  /\ Exhausted
  /\ Top.possible_costs # <<>>
  /\ LET v == Min(Range(Top.possible_costs)) IN
       /\ cache' = (Top.state :> v) @@ cache
       /\ Deliver(v, SubSeq(stack, 1, Len(stack) - 1))
  /\ UNCHANGED <<expansions, expanded>>
  /\ UNCHANGED walk_vars

\* min(possible_costs) with possible_costs == []: ValueError, which no
\* activation catches
EmptyMin ==
  /\ pc = "search"
  /\ stack # <<>>
  /\ Exhausted
  /\ Top.possible_costs = <<>>
  /\ stack' = <<>>
  /\ returned' = Append(returned, Outcome("ValueError", None, Top.state, expanded))
  /\ pc' = "done"
  /\ UNCHANGED <<cache, expansions, expanded>>
  /\ UNCHANGED walk_vars

\* the walk that leads to the state the search is called on
WalkRoomToHallway ==
  /\ pc = "walk"
  /\ walked < MaxWalk
  /\ TakeMove(all_room_moves(state, 1), "room_to_hall")
  /\ walked' = walked + 1
  /\ UNCHANGED search_vars

WalkHallwayToRoom ==
  /\ pc = "walk"
  /\ walked < MaxWalk
  /\ TakeMove(all_hall_moves(state, 0), "hall_to_room")
  /\ walked' = walked + 1
  /\ UNCHANGED search_vars

NextSearch ==
  \/ WalkRoomToHallway
  \/ WalkHallwayToRoom
  \/ TopCall
  \/ CacheHit
  \/ BaseCase
  \/ Expand
  \/ Reenter
  \/ Return
  \/ EmptyMin

SpecSearch == Init /\ [][NextSearch]_vars

\* the search on the layouts with two rooms already sorted
InitSorted ==
  /\ Init
  /\ initial_state \in SortedHalfStates

SpecSorted == InitSorted /\ [][NextSearch]_vars

(* ------------------------ reference definitions ------------------------- *)
\* number of units labelled l over the hallway and the rooms of a state
CountLetter(st, l) ==
  Cardinality({j \in 0..(HallwayLen - 1) : st[0][j] = l})
  + Cardinality({p \in (1..4) \X (0..(RoomDepth - 1)) : st[p[1]][p[2]] = l})

\* a unit in the room of its own type with only units of that type below it
SettledUnit(st, i, k) ==
  /\ st[i][k] # None
  /\ target_rooms[st[i][k]] = i
  /\ \A k2 \in k..(RoomDepth - 1) : st[i][k2] = st[i][k]

\* totals of emitted costs of the move sequences of at most n more moves
\* that lead to the target state; pairs holds <<state, cost so far>>
RECURSIVE Relax(_, _, _)
Relax(pairs, totals, n) ==
  LET here == totals \cup {p[2] : p \in {q \in pairs : q[1] = target_state}}
  IN  IF n = 0 \/ pairs = {} THEN here
      ELSE Relax(UNION {{<<m[1], p[2] + m[2]>> : m \in Range(get_possible_moves(p[1]))}
                        : p \in pairs},
                 here, n - 1)

\* the totals of the move sequences of at most PathBound moves from st to
\* the target state
PathTotals(st) == Relax({<<st, 0>>}, {}, PathBound)

(* -------------------------------- claims -------------------------------- *)
\* C1: the search called on the example layout returns 12521.
C1_ExampleReturns12521 ==
  (state = ExampleState /\ walked = 0 /\ returned # <<>>) =>
    /\ returned[1].outcome = "value"
    /\ returned[1].value = 12521

\* C2: called on a reachable state from which emitted moves lead to the
\* target state, the search returns the least total of emitted costs over
\* the move sequences that lead to the target state.
C2_ReturnsMinimum ==
  pc = "done" =>
    LET r == returned[Len(returned)]
        totals == PathTotals(state)
    IN  totals # {} => (r.outcome = "value" /\ r.value = Min(totals))

\* C3: every state reached by emitted moves holds the same number of units
\* of each label as the initial state.
C3_Conservation ==
  \A l \in Letters : CountLetter(state, l) = CountLetter(initial_state, l)

\* C4: no emitted move leaves a unit at hallway column 2, 4, 6 or 8, and
\* those columns are empty in every state reached from an empty hallway.
C4_DoorwaysEmpty ==
  LET moves == get_possible_moves(state) IN
  /\ \A c \in {2, 4, 6, 8} : state[0][c] = None
  /\ \A n \in DOMAIN moves : \A c \in {2, 4, 6, 8} : moves[n][1][0][c] = None

\* a unit that left its room rests right beside a doorway
C4_Witness ==
  /\ moved = "room_to_hall"
  /\ state[0][3] # None
  /\ state[0][7] # None

\* C5: when the search meets a state that is not the target state and has
\* no emitted move, the caller gets an explicit Unsolvable error.
C5_UnsolvableIsExplicit ==
  \A k \in DOMAIN returned :
    (returned[k].at # target_state /\ get_possible_moves(returned[k].at) = <<>>) =>
      returned[k].outcome = "Unsolvable"

\* C6: a settled unit (in the room of its type, only units of its type
\* below it) is in the same slot after every emitted move.
C6_SettledStay ==
  [][\A i \in 1..4 : \A k \in 0..(RoomDepth - 1) :
       SettledUnit(state, i, k) => state'[i][k] = state[i][k]]_vars

\* a unit entered its room on top of a settled one while others still wait
C6_Witness ==
  /\ moved = "hall_to_room"
  /\ \E i \in 1..4 : SettledUnit(state, i, 0) /\ initial_state[i] # state[i]
  /\ \E j \in 0..(HallwayLen - 1) : state[0][j] # None

\* C7: the target state has no emitted move and the search returns 0 for it.
C7_TargetTerminal ==
  /\ state = target_state =>
       /\ get_possible_moves(state) = <<>>
       /\ \A k \in DOMAIN returned :
            returned[k].outcome = "value" /\ returned[k].value = 0
  /\ target_state \in DOMAIN cache => cache[target_state] = 0

\* the search was called on the target state and has returned
C7_Witness ==
  /\ state = target_state
  /\ pc = "done"
  /\ Len(returned) = 1

\* C8: every emitted cost is greater than 0.
C8_CostPositive ==
  LET moves == get_possible_moves(state) IN
  /\ moved # "none" => energy > 0
  /\ \A n \in DOMAIN moves : moves[n][2] > 0

\* a unit went to the leftmost column, another went back into a room
C8_Witness ==
  /\ moved = "hall_to_room"
  /\ energy > 0
  /\ state[0][0] # None

\* C9: a second call on the same state returns the value of the first and
\* expands nothing, and one search enumerates the moves of a state at most
\* once.
C9_MemoIdempotent ==
  /\ (Len(returned) >= 2 /\ returned[1].outcome = "value") =>
       /\ returned[2].outcome = "value"
       /\ returned[2].value = returned[1].value
       /\ returned[2].expanded = returned[1].expanded
  /\ \A s \in DOMAIN expansions : expansions[s] <= 1

\* C10: a move into a room is emitted only when the room holds no unit of
\* another type.
C10_RoomHasNoOthers ==
  \A i \in 0..(HallwayLen - 1) :
    hall_moves(state, i) # <<>> =>
      \A k \in 0..(RoomDepth - 1) :
        state[target_rooms[state[0][i]]][k] \in {None, state[0][i]}

\* the slots of room r that hold letter in new and did not in st
EnteredSlots(st, new, r, letter) ==
  {k \in 0..(RoomDepth - 1) : new[r][k] = letter /\ st[r][k] # letter}

\* C11: the cost of a move into a room is (distance from the unit's column
\* to the doorway + index of the slot entered + 1) times the rate, once.
C11_HallCostOnce ==
  \A i \in 0..(HallwayLen - 1) :
    hall_moves(state, i) # <<>> =>
      LET letter == state[0][i]
          r == target_rooms[letter]
          move == hall_moves(state, i)[1]
      IN  \A k \in EnteredSlots(state, move[1], r, letter) :
            move[2] = (abs(i - room_to_hall[r]) + k + 1) * energy_costs[letter]

\* C12: a move into a room puts the unit in the deepest empty slot of the
\* room of its type, and that slot is empty before the move.
C12_DeepestEmptySlot ==
  \A i \in 0..(HallwayLen - 1) :
    hall_moves(state, i) # <<>> =>
      LET letter == state[0][i]
          r == target_rooms[letter]
          new == hall_moves(state, i)[1][1]
      IN  \E k \in 0..(RoomDepth - 1) :
            /\ state[r][k] = None
            /\ new[r][k] = letter
            /\ \A k2 \in (k + 1)..(RoomDepth - 1) : state[r][k2] # None
            /\ \A k2 \in 0..(RoomDepth - 1) : k2 # k => new[r][k2] = state[r][k2]

\* the states one emitted move away from a state of S
Successors(S) ==
  UNION {{m[1] : m \in Range(get_possible_moves(st))} : st \in S}

\* the states reached from a state of S by 1..n emitted moves
RECURSIVE ReachedAfter(_, _)
ReachedAfter(S, n) ==
  IF n = 0 \/ S = {} THEN {}
  ELSE Successors(S) \cup ReachedAfter(Successors(S), n - 1)

\* C13: no reachable state is reached again from itself by one or more
\* emitted moves (looked at for cycles of up to CycleBound moves).
C13_NoCycle == state \notin ReachedAfter({state}, CycleBound)

\* C14: the search started on a legal initial layout never calls itself on
\* a state whose computation is still in progress, so it does not run into
\* the recursion limit.
C14_NoReentry ==
  walked = 0 =>
    /\ (CallPending /\ callee \notin DOMAIN cache) => ~InProgress(callee)
    /\ \A k \in DOMAIN returned : returned[k].outcome # "RecursionError"

AllPresent(st) == \A l \in Letters : CountLetter(st, l) = 2
HallwayEmpty(st) == \A j \in 0..(HallwayLen - 1) : st[0][j] = None

\* C15 (as claimed): the target state stays reachable from every reachable
\* state and is the only one without an emitted move, so every reachable
\* state is the target state or has an emitted move.
C15_TargetOnlyDeadEnd ==
  get_possible_moves(state) = <<>> => state = target_state

\* C15 (amended): the target state has no emitted move, and it is the only
\* reachable state without an emitted move that has an empty hallway and
\* holds all eight units.
C15_TargetOnlyClearDeadEnd ==
  /\ state = target_state => get_possible_moves(state) = <<>>
  /\ (get_possible_moves(state) = <<>> /\ HallwayEmpty(state) /\ AllPresent(state))
       => state = target_state

\* the last unit went into its room and completed the target state
C15_Witness ==
  /\ state = target_state
  /\ moved = "hall_to_room"
  /\ initial_state # target_state

\* the top unit of room i may leave: the room is not empty and its topmost
\* unit is not settled
Eligible(st, i) ==
  /\ \E k \in 0..(RoomDepth - 1) : st[i][k] # None
  /\ LET k == Min({k2 \in 0..(RoomDepth - 1) : st[i][k2] # None})
     IN  ~SettledUnit(st, i, k)

\* the hallway columns between a and b, both included
Between(a, b) == IF a <= b THEN a..b ELSE b..a

\* the columns a unit leaving room i may rest at
OpenColumns(st, i) ==
  {c \in (0..(HallwayLen - 1)) \ {2, 4, 6, 8} :
     \A j \in Between(2 * i, c) : st[0][j] = None}

\* the columns at which the moves emitted for room i put a unit
Destinations(st, i) ==
  LET moves == room_moves(st, i) IN
  {c \in 0..(HallwayLen - 1) : \E n \in DOMAIN moves : moves[n][1][0][c] # st[0][c]}

\* C16: for a unit eligible to leave room i, the columns of the emitted
\* moves are exactly the non-doorway columns c with every hallway slot from
\* the doorway of room i to c empty.
C16_OpenColumns ==
  \A i \in 1..4 :
    Eligible(state, i) => Destinations(state, i) = OpenColumns(state, i)

\* an eligible unit has hallway units on both sides of its doorway
C16_Witness ==
  /\ moved = "room_to_hall"
  /\ \E i \in 1..4 :
       /\ Eligible(state, i)
       /\ OpenColumns(state, i) # {}
       /\ \E j \in 0..(2 * i - 1) : state[0][j] # None
       /\ \E j \in (2 * i + 1)..(HallwayLen - 1) : state[0][j] # None

\* C17: a move into a room is emitted for the unit at column i only if
\* every hallway slot from the column next to i up to the doorway of its
\* room (included) is empty.
C17_ClearPath ==
  \A i \in 0..(HallwayLen - 1) :
    hall_moves(state, i) # <<>> =>
      \A j \in Between(i, 2 * target_rooms[state[0][i]]) \ {i} : state[0][j] = None

\* one hallway unit is blocked by another one, a third unit went home
C17_Witness ==
  /\ moved = "hall_to_room"
  /\ \E i \in 0..(HallwayLen - 1) :
       /\ state[0][i] # None
       /\ hall_moves(state, i) = <<>>
       /\ i > 2 * target_rooms[state[0][i]]

\* C18: the cost of a move out of a room is (index of the slot left + 1 +
\* distance from the doorway to the column reached) times the rate.
C18_RoomCost ==
  LET moves == all_room_moves(state, 1) IN
  \A n \in DOMAIN moves :
    LET new == moves[n][1] IN
    /\ \E i \in 1..4 : \E k \in 0..(RoomDepth - 1) : state[i][k] # new[i][k]
    /\ \A i \in 1..4 : \A k \in 0..(RoomDepth - 1) : \A c \in 0..(HallwayLen - 1) :
         (state[i][k] # new[i][k] /\ state[0][c] # new[0][c]) =>
           moves[n][2] = (k + 1 + abs(2 * i - c)) * energy_costs[new[0][c]]

\* a unit in a bottom slot can leave after the one above it has left
C18_Witness ==
  /\ moved = "room_to_hall"
  /\ \E i \in 1..4 :
       /\ state[i][0] = None
       /\ state[i][1] # None
       /\ room_moves(state, i) # <<>>

\* C19: in every reachable state the top slot of a room is occupied only
\* if its bottom slot is.
C19_StackedFromBottom ==
  \A i \in 1..4 : state[i][0] # None => state[i][1] # None

\* a unit entered the bottom slot of an empty room
C19_Witness ==
  /\ moved = "hall_to_room"
  /\ \E i \in 1..4 :
       /\ state[i][0] = None
       /\ state[i][1] # None
       /\ state[i][1] # initial_state[i][1]

\* the hallway columns, and the room slots, in which two states differ
ChangedColumns(st, new) == {c \in 0..(HallwayLen - 1) : st[0][c] # new[0][c]}
ChangedSlots(st, new) ==
  {p \in (1..4) \X (0..(RoomDepth - 1)) : st[p[1]][p[2]] # new[p[1]][p[2]]}

\* C20: every emitted move changes exactly one hallway slot and one room
\* slot: one of them becomes empty and the other gets the label it held.
C20_TwoSlotsChange ==
  LET moves == get_possible_moves(state) IN
  \A n \in DOMAIN moves :
    LET new == moves[n][1] IN
    /\ Cardinality(ChangedColumns(state, new)) = 1
    /\ Cardinality(ChangedSlots(state, new)) = 1
    /\ \A c \in ChangedColumns(state, new) : \A p \in ChangedSlots(state, new) :
         \/ (new[0][c] = None /\ new[p[1]][p[2]] = state[0][c])
         \/ (new[p[1]][p[2]] = None /\ new[0][c] = state[p[1]][p[2]])

====
